---- MODULE Spec2Model ----
(***************************************************************************)
(* Model of src/profile_generator.py: the filament profile generator for   *)
(* OrcaSlicer (temperature-hint parser, heuristic and LLM preset           *)
(* generators, tuning engine, profile serializer and the main pipeline).   *)
(*                                                                         *)
(* Representation.                                                         *)
(*  - A Python number (int or float) is an integer count of thousandths:   *)
(*    210 is 210 * Milli, 0.02 is 20, 0.5 is 500.  NaN is a reserved value *)
(*    with Python's comparison semantics (every ordering test is false).   *)
(*  - A Python str that the program inspects character by character (a     *)
(*    name, a cooling preference, a temperature hint) is a sequence of     *)
(*    one-character strings.                                               *)
(*  - A text exchanged with the LLM service is a sequence of JSON lexical  *)
(*    tokens; json.loads is a parser over that sequence.                   *)
(***************************************************************************)
EXTENDS Integers, Sequences, FiniteSets, TLC

\* fn: the entry point being run; arg: its arguments; pc: its position;
\* local, material, tuned, filament: main's local variables; ret: what the
\* entry point returned or raised.
VARIABLES fn, arg, pc, local, material, tuned, filament, ret

vars == <<fn, arg, pc, local, material, tuned, filament, ret>>

None == [t |-> "None"]

\* Op applied to the value of v, with v evaluated once
Bind(v, Op(_)) == CHOOSE x \in {Op(y) : y \in {v}} : TRUE

(***************************************************************************)
(* Numbers                                                                 *)
(***************************************************************************)
Milli == 1000

NaN == 0 - 2000000000

\* Python's < and > on numbers: false whenever an operand is NaN.
Lt(a, b) == a # NaN /\ b # NaN /\ a < b

Gt(a, b) == Lt(b, a)

\* Built-in min(a, b): the first argument unless the second is smaller.
PyMin(a, b) == IF Lt(b, a) THEN b ELSE a

\* Built-in max(a, b): the first argument unless the second is larger.
PyMax(a, b) == IF Gt(b, a) THEN b ELSE a

\* int(x) of a finite number: truncation toward zero.
PyInt(x) == IF x >= 0 THEN (x \div Milli) * Milli ELSE 0 - (((0 - x) \div Milli) * Milli)

\* x * y for numbers in thousandths.
Mul(x, y) == IF x * y >= 0 THEN (x * y) \div Milli ELSE 0 - ((0 - x * y) \div Milli)

\* clamp without its lower limit
clamp_upper_only(value, min_value, max_value) == PyMin(value, max_value)

clamp(value, min_value, max_value) == PyMax(min_value, PyMin(value, max_value))

(***************************************************************************)
(* Character strings                                                       *)
(***************************************************************************)
\* needle in haystack
Contains(needle, haystack) ==
  \E i \in 0..(Len(haystack) - Len(needle)) :
     SubSeq(haystack, i + 1, i + Len(needle)) = needle

LowerChar(c) ==
  CASE c = "A" -> "a" [] c = "C" -> "c" [] c = "D" -> "d" [] c = "E" -> "e"
    [] c = "F" -> "f" [] c = "G" -> "g" [] c = "H" -> "h" [] c = "I" -> "i"
    [] c = "K" -> "k" [] c = "L" -> "l" [] c = "M" -> "m" [] c = "N" -> "n"
    [] c = "O" -> "o" [] c = "P" -> "p" [] c = "T" -> "t" [] c = "U" -> "u"
    [] c = "W" -> "w" [] c = "Y" -> "y"
    [] OTHER -> c

\* str.lower()
Lower(s) == [i \in 1..Len(s) |-> LowerChar(s[i])]

(***************************************************************************)
(* Preset catalog                                                          *)
(***************************************************************************)
MATERIALS ==
  [pla |->
     [name |-> <<"P", "L", "A", " ", "K", "1", "C">>,
      nozzle_temp |-> 210 * Milli, bed_temp |-> 60 * Milli,
      fan_speed |-> 95 * Milli, fan_speed_min |-> 80 * Milli,
      fan_speed_max |-> 100 * Milli,
      flow_ratio |-> 1000, density |-> 1240, cost |-> 20 * Milli,
      retraction_length |-> 800, retraction_speed |-> 35 * Milli,
      default_pressure_advance |-> 0],
   petg |->
     [name |-> <<"P", "E", "T", "G", " ", "K", "1", "C">>,
      nozzle_temp |-> 240 * Milli, bed_temp |-> 80 * Milli,
      fan_speed |-> 45 * Milli, fan_speed_min |-> 30 * Milli,
      fan_speed_max |-> 60 * Milli,
      flow_ratio |-> 1000, density |-> 1270, cost |-> 25 * Milli,
      retraction_length |-> 1000, retraction_speed |-> 40 * Milli,
      default_pressure_advance |-> 20]]

(***************************************************************************)
(* Heuristic generator                                                     *)
(***************************************************************************)
HIGH == <<"h", "i", "g", "h">>

LOW == <<"l", "o", "w">>

MEDIUM == <<"m", "e", "d", "i", "u", "m">>

CF == <<"c", "f">>

CARBON == <<"c", "a", "r", "b", "o", "n">>

PA == <<"p", "a">>

NYLON == <<"n", "y", "l", "o", "n">>

ai_generate_material_preset(name, nozzle_hint, bed_hint, fan_pref_raw) ==
  LET nozzle_temp == PyInt(clamp(nozzle_hint, 160 * Milli, 290 * Milli))
      bed_temp == PyInt(clamp(bed_hint, 30 * Milli, 120 * Milli))
      fan_pref == Lower(fan_pref_raw)
      \* <<fan_speed, fan_min, fan_max, retraction_len>>
      fan == IF fan_pref = HIGH THEN <<90 * Milli, 70 * Milli, 100 * Milli, 800>>
             ELSE IF fan_pref = LOW THEN <<40 * Milli, 25 * Milli, 60 * Milli, 1000>>
             ELSE <<60 * Milli, 40 * Milli, 80 * Milli, 900>>
      density0 == IF Contains(CF, Lower(name)) \/ Contains(CARBON, Lower(name))
                  THEN 1300 ELSE 1240
      density == IF Contains(PA, Lower(name)) \/ Contains(NYLON, Lower(name))
                 THEN PyMax(density0, 1140) ELSE density0
  IN [name |-> name,
      nozzle_temp |-> nozzle_temp,
      bed_temp |-> bed_temp,
      fan_speed |-> fan[1],
      fan_speed_min |-> fan[2],
      fan_speed_max |-> fan[3],
      flow_ratio |-> 1000,
      density |-> density,
      cost |-> 25 * Milli,
      retraction_length |-> fan[4],
      retraction_speed |-> 38 * Milli,
      default_pressure_advance |-> IF fan_pref \in {MEDIUM, LOW} THEN 20 ELSE 0]

(***************************************************************************)
(* Tuning engine                                                           *)
(***************************************************************************)
PLA == <<"P", "L", "A">>

\* line 217, with the upper edge of the window at the base temperature + 10
tune_nozzle_temp_symmetric(base, suggested_temp) ==
  PyInt(clamp(suggested_temp, base.nozzle_temp - 10 * Milli, base.nozzle_temp + 10 * Milli))

\* line 217
tune_nozzle_temp(base, suggested_temp) ==
  PyInt(clamp(suggested_temp, base.nozzle_temp - 10 * Milli, base.nozzle_temp + 15 * Milli))

\* lines 220-222
tune_bed_temp(base, nozzle_temp) ==
  IF Gt(nozzle_temp, base.nozzle_temp + 5 * Milli)
  THEN PyMin(base.bed_temp + 5 * Milli, base.bed_temp + 10 * Milli)
  ELSE base.bed_temp

\* line 225, with the family test made on the lower-cased name
is_pla_family_anycase(name) == Contains(Lower(PLA), Lower(name))

\* line 225: "PLA" in base.name
is_pla_family(name) == Contains(PLA, name)

ai_tune_filament(base, suggested_temp) ==
  LET nozzle_temp == tune_nozzle_temp(base, suggested_temp)
      bed_temp == tune_bed_temp(base, nozzle_temp)
      d == nozzle_temp - base.nozzle_temp
      isPLA == is_pla_family(base.name)
      fan_speed == IF isPLA
                   THEN clamp(base.fan_speed - Mul(d, 2 * Milli), 80 * Milli, 100 * Milli)
                   ELSE clamp(base.fan_speed - d, 25 * Milli, 65 * Milli)
      fan_min == IF isPLA
                 THEN clamp(base.fan_speed_min - d, 70 * Milli, 100 * Milli)
                 ELSE clamp(base.fan_speed_min - Mul(d, 500), 20 * Milli, 60 * Milli)
      fan_max == IF isPLA
                 THEN 100 * Milli
                 ELSE clamp(base.fan_speed_max - Mul(d, 500), 40 * Milli, 80 * Milli)
      \* round(flow_ratio, 3) keeps three decimals, which is the unit here
      flow_ratio == clamp(base.flow_ratio - Mul(d, 2), 960, 1040)
  IN [nozzle_temp |-> nozzle_temp,
      bed_temp |-> bed_temp,
      fan_speed |-> PyInt(fan_speed),
      fan_speed_min |-> PyInt(fan_min),
      fan_speed_max |-> PyInt(fan_max),
      flow_ratio |-> flow_ratio,
      pressure_advance |-> base.default_pressure_advance]

(***************************************************************************)
(* Temperature hint parser                                                 *)
(***************************************************************************)
HYPHEN == "-"

\* the en-dash character U+2013
ENDASH == "u2013"

IsSpace(c) == c = " "

IsDigit(c) == c \in {"0", "1", "2", "3", "4", "5", "6", "7", "8", "9"}

DigitVal(c) ==
  CASE c = "0" -> 0 [] c = "1" -> 1 [] c = "2" -> 2 [] c = "3" -> 3
    [] c = "4" -> 4 [] c = "5" -> 5 [] c = "6" -> 6 [] c = "7" -> 7
    [] c = "8" -> 8 [] c = "9" -> 9

\* str.strip()
RECURSIVE Strip(_)
Strip(s) ==
  IF s = <<>> THEN s
  ELSE IF IsSpace(Head(s)) THEN Strip(Tail(s))
  ELSE IF IsSpace(s[Len(s)]) THEN Strip(SubSeq(s, 1, Len(s) - 1))
  ELSE s

RECURSIVE DigitsVal(_)
DigitsVal(s) ==
  IF s = <<>> THEN 0
  ELSE DigitsVal(SubSeq(s, 1, Len(s) - 1)) * 10 + DigitVal(s[Len(s)])

AllDigits(s) == s # <<>> /\ \A i \in 1..Len(s) : IsDigit(s[i])

\* int(s) succeeds: optional surrounding whitespace, optional sign, digits.
IntOk(s) ==
  LET t == Strip(s)
  IN IF t # <<>> /\ Head(t) \in {"-", "+"} THEN AllDigits(Tail(t)) ELSE AllDigits(t)

\* int(s), where IntOk(s); it raises ValueError otherwise.
IntVal(s) ==
  LET t == Strip(s)
  IN IF Head(t) = "-" THEN 0 - DigitsVal(Tail(t)) * Milli
     ELSE IF Head(t) = "+" THEN DigitsVal(Tail(t)) * Milli
     ELSE DigitsVal(t) * Milli

\* re.split(r"[-–]", s)
RECURSIVE ReSplit(_)
ReSplit(s) ==
  IF \A i \in 1..Len(s) : s[i] \notin {HYPHEN, ENDASH} THEN <<s>>
  ELSE LET i == CHOOSE k \in 1..Len(s) :
                   /\ s[k] \in {HYPHEN, ENDASH}
                   /\ \A j \in 1..(k - 1) : s[j] \notin {HYPHEN, ENDASH}
       IN <<SubSeq(s, 1, i - 1)>> \o ReSplit(SubSeq(s, i + 1, Len(s)))

\* x / y (true division) for y > 0, exact to the thousandth
TrueDiv(x, y) ==
  IF x >= 0 THEN (x \div y) * Milli + ((x % y) * Milli) \div y
  ELSE 0 - (((0 - x) \div y) * Milli + (((0 - x) % y) * Milli) \div y)

parse_temp_hint(raw, fallback) ==
  IF raw = <<>> THEN fallback
  ELSE LET parts == SelectSeq(ReSplit(raw), LAMBDA p : Strip(p) # <<>>)
           ranged == \E i \in 1..Len(raw) : raw[i] = HYPHEN
           nums == [i \in 1..Len(parts) |-> IntVal(parts[i])]
       IN IF ranged /\ \E i \in 1..Len(parts) : ~IntOk(parts[i])
          THEN fallback                       \* ValueError in the comprehension
          ELSE IF ranged /\ Len(parts) >= 2
          THEN PyInt(TrueDiv(nums[1] + nums[2], 2 * Milli))
          ELSE IF IntOk(raw) THEN IntVal(raw)
          ELSE fallback                       \* ValueError in int(raw)

(***************************************************************************)
(* Specification of parse_temp_hint over every short hint text             *)
(***************************************************************************)
MaxLen == 5

HintChars == {"1", "2", HYPHEN, ENDASH, " ", "a"}

Fallbacks == {0, 99 * Milli}

InitParse ==
  /\ fn = "parse_temp_hint"
  /\ \E n \in 0..MaxLen : \E raw \in [1..n -> HintChars] : \E fallback \in Fallbacks :
        arg = [raw |-> raw, fallback |-> fallback]
  /\ pc = "call"
  /\ local = None /\ material = None /\ tuned = None /\ filament = None /\ ret = None

CallParse ==
  /\ fn = "parse_temp_hint" /\ pc = "call"
  /\ ret' = [t |-> "return", v |-> parse_temp_hint(arg.raw, arg.fallback), kind |-> "", text |-> <<>>]
  /\ pc' = "return"
  /\ UNCHANGED <<fn, arg, local, material, tuned, filament>>

NextParse == CallParse

SpecParse == InitParse /\ [][NextParse]_vars

(***************************************************************************)
(* JSON texts and json.loads                                               *)
(*                                                                         *)
(* A text is a sequence of lexical tokens.  A token is a punctuation mark  *)
(* (one of { } [ ] : , and the newline NL), a number literal, a bare word  *)
(* (null, true, false, or prose), or a quoted string literal whose body is *)
(* again a text.  A Python str value is the text between the quotes.       *)
(***************************************************************************)
Punct(c) == [k |-> "punct", s |-> c, n |-> 0, body |-> <<>>]

NumTok(x) == [k |-> "num", s |-> "", n |-> x, body |-> <<>>]

Word(w) == [k |-> "word", s |-> w, n |-> 0, body |-> <<>>]

StrTok(text) == [k |-> "str", s |-> "", n |-> 0, body |-> text]

NL == Punct("NL")

\* Python values produced by json.loads
PNum(x) == [t |-> "num", n |-> x, s |-> <<>>, d |-> <<>>, l |-> <<>>]

PStr(text) == [t |-> "str", n |-> 0, s |-> text, d |-> <<>>, l |-> <<>>]

PDict(f) == [t |-> "dict", n |-> 0, s |-> <<>>, d |-> f, l |-> <<>>]

PList(elems) == [t |-> "list", n |-> 0, s |-> <<>>, d |-> <<>>, l |-> elems]

PNone == [t |-> "None", n |-> 0, s |-> <<>>, d |-> <<>>, l |-> <<>>]

\* True and False are the numbers 1 and 0
PBool(b) == [t |-> "num", n |-> IF b THEN Milli ELSE 0, s |-> <<>>, d |-> <<>>, l |-> <<>>]

JSONDecodeError == [t |-> "JSONDecodeError", n |-> 0, s |-> <<>>, d |-> <<>>, l |-> <<>>]

Parsed(v, rest) == [ok |-> TRUE, val |-> v, rest |-> rest]

Failed == [ok |-> FALSE, val |-> JSONDecodeError, rest |-> <<>>]

IsPunct(ts, c) == ts # <<>> /\ Head(ts).k = "punct" /\ Head(ts).s = c

\* d with key mapped to v (a later duplicate key replaces an earlier one)
DictPut(d, key, v) == [x \in (DOMAIN d) \cup {key} |-> IF x = key THEN v ELSE d[x]]

RECURSIVE ParseValue(_)
RECURSIVE ParseMembers(_, _)
RECURSIVE ParseElements(_, _)

\* value := number | string | null | true | false | object | array
ParseValue(ts) ==
  IF ts = <<>> THEN Failed
  ELSE LET h == Head(ts)
       IN CASE h.k = "num" -> Parsed(PNum(h.n), Tail(ts))
            [] h.k = "str" -> Parsed(PStr(h.body), Tail(ts))
            [] h.k = "word" ->
                 IF h.s = "null" THEN Parsed(PNone, Tail(ts))
                 ELSE IF h.s = "true" THEN Parsed(PBool(TRUE), Tail(ts))
                 ELSE IF h.s = "false" THEN Parsed(PBool(FALSE), Tail(ts))
                 ELSE Failed
            [] h.k = "punct" ->
                 IF h.s = "{"
                 THEN IF IsPunct(Tail(ts), "}")
                      THEN Parsed(PDict(<<>>), Tail(Tail(ts)))
                      ELSE ParseMembers(Tail(ts), <<>>)
                 ELSE IF h.s = "["
                 THEN IF IsPunct(Tail(ts), "]")
                      THEN Parsed(PList(<<>>), Tail(Tail(ts)))
                      ELSE ParseElements(Tail(ts), <<>>)
                 ELSE Failed

\* members := string ':' value (',' string ':' value)* '}'
ParseMembers(ts, d) ==
  IF ts = <<>> \/ Head(ts).k # "str" \/ ~IsPunct(Tail(ts), ":") THEN Failed
  ELSE LET key == Head(ts).body
       IN Bind(ParseValue(Tail(Tail(ts))), LAMBDA r :
            IF ~r.ok THEN Failed
            ELSE IF IsPunct(r.rest, "}")
            THEN Parsed(PDict(DictPut(d, key, r.val)), Tail(r.rest))
            ELSE IF IsPunct(r.rest, ",")
            THEN ParseMembers(Tail(r.rest), DictPut(d, key, r.val))
            ELSE Failed)

\* elements := value (',' value)* ']'
ParseElements(ts, l) ==
  Bind(ParseValue(ts), LAMBDA r :
    IF ~r.ok THEN Failed
    ELSE IF IsPunct(r.rest, "]") THEN Parsed(PList(Append(l, r.val)), Tail(r.rest))
    ELSE IF IsPunct(r.rest, ",") THEN ParseElements(Tail(r.rest), Append(l, r.val))
    ELSE Failed)

\* json.loads(text): one value, whitespace between tokens ignored, no extra data
json_loads(text) ==
  Bind(ParseValue(SelectSeq(text, LAMBDA tk : tk # NL)), LAMBDA r :
    IF r.ok /\ r.rest = <<>> THEN r.val ELSE JSONDecodeError)

(***************************************************************************)
(* call_ollama: reassembly of the streamed answer                          *)
(***************************************************************************)
\* text.strip() for a text whose only whitespace is the newline
RECURSIVE StripNL(_)
StripNL(text) ==
  IF text = <<>> THEN text
  ELSE IF Head(text) = NL THEN StripNL(Tail(text))
  ELSE IF text[Len(text)] = NL THEN StripNL(SubSeq(text, 1, Len(text) - 1))
  ELSE text

\* text.split("\n")
RECURSIVE SplitNL(_)
SplitNL(text) ==
  IF \A i \in 1..Len(text) : text[i] # NL THEN <<text>>
  ELSE LET i == CHOOSE k \in 1..Len(text) :
                   text[k] = NL /\ \A j \in 1..(k - 1) : text[j] # NL
       IN <<SubSeq(text, 1, i - 1)>> \o SplitNL(SubSeq(text, i + 1, Len(text)))

\* key in v: "yes", "no", or "TypeError" when v is not a container
In(key, v) ==
  CASE v.t = "dict" -> IF key \in DOMAIN v.d THEN "yes" ELSE "no"
    [] v.t = "list" -> IF \E i \in 1..Len(v.l) : v.l[i] = PStr(key) THEN "yes" ELSE "no"
    [] v.t = "str" -> IF Contains(key, v.s) THEN "yes" ELSE "no"
    [] OTHER -> "TypeError"

MESSAGE == <<Word("message")>>

CONTENT == <<Word("content")>>

\* The effect of one line on full_content: [err |-> ..., add |-> fragment]
LineEffect(line) ==
  LET skip == [err |-> "", add |-> <<>>]
      typeError == [err |-> "TypeError", add |-> <<>>]
  IN IF StripNL(line) = <<>> THEN skip
     ELSE Bind(json_loads(line), LAMBDA data :
       IF data = JSONDecodeError THEN skip
       ELSE IF In(MESSAGE, data) = "TypeError" THEN typeError
       ELSE IF In(MESSAGE, data) = "no" THEN skip
       ELSE IF data.t # "dict" THEN typeError          \* data["message"] on a list or str
       ELSE IF In(CONTENT, data.d[MESSAGE]) = "TypeError" THEN typeError
       ELSE IF In(CONTENT, data.d[MESSAGE]) = "no" THEN skip
       ELSE IF data.d[MESSAGE].t # "dict" THEN typeError
       ELSE IF data.d[MESSAGE].d[CONTENT].t # "str" THEN typeError   \* str += non-str
       ELSE [err |-> "", add |-> data.d[MESSAGE].d[CONTENT].s])

RECURSIVE Reassemble(_, _)
Reassemble(lines, full_content) ==
  IF lines = <<>> THEN [err |-> "", text |-> full_content]
  ELSE Bind(LineEffect(Head(lines)), LAMBDA e :
         IF e.err # "" THEN [err |-> e.err, text |-> <<>>]
         ELSE Reassemble(Tail(lines), full_content \o e.add))

\* The value call_ollama returns for the response body the service delivered,
\* or the error it raises.
call_ollama(response_text) ==
  Bind(Reassemble(SplitNL(StripNL(response_text)), <<>>), LAMBDA r :
    IF r.err # "" THEN r
    ELSE IF r.text # <<>> THEN r
    ELSE [err |-> "", text |-> response_text])

(***************************************************************************)
(* LLM generator                                                           *)
(***************************************************************************)
Key(w) == <<Word(w)>>

Return(v) == [t |-> "return", v |-> v, kind |-> "", text |-> <<>>]

Raise(kind, text) == [t |-> "raise", v |-> None, kind |-> kind, text |-> text]

\* lines 175-209: the preset built from the parsed answer
preset_from(data, name, nozzle_hint, bed_hint) ==
  LET get(key, default) == IF Key(key) \in DOMAIN data.d THEN data.d[Key(key)]
                           ELSE PNum(default)
      g_nozzle == get("nozzle_temp", nozzle_hint)
      g_bed == get("bed_temp", bed_hint)
      g_fan == get("fan_speed", 60 * Milli)
      fan_speed == clamp(g_fan.n, 0, 100 * Milli)
      g_min == get("fan_speed_min", PyMax(0, fan_speed - 20 * Milli))
      g_max == get("fan_speed_max", PyMax(fan_speed, 60 * Milli))
      g_flow == get("flow_ratio", 1000)
      g_rlen == get("retraction_length", 900)
      g_rspeed == get("retraction_speed", 38 * Milli)
      g_pa == get("pressure_advance", 20)
      \* min() and max() raise TypeError on a value that is not a number
      numeric == /\ g_nozzle.t = "num" /\ g_bed.t = "num" /\ g_fan.t = "num"
                 /\ g_min.t = "num" /\ g_max.t = "num" /\ g_flow.t = "num"
                 /\ g_rlen.t = "num" /\ g_rspeed.t = "num" /\ g_pa.t = "num"
      nozzle_temp == PyInt(clamp(g_nozzle.n, 160 * Milli, 290 * Milli))
      bed_temp == PyInt(clamp(g_bed.n, 30 * Milli, 120 * Milli))
      fan_min == clamp(g_min.n, 0, 100 * Milli)
      fan_max == clamp(g_max.n, 0, 100 * Milli)
      flow_ratio == clamp(g_flow.n, 900, 1100)
      retraction_length == clamp(g_rlen.n, 400, 1800)
      retraction_speed == clamp(g_rspeed.n, 15 * Milli, 55 * Milli)
      pressure_advance == clamp(g_pa.n, 0, 200)
      density == IF Contains(CF, Lower(name)) \/ Contains(CARBON, Lower(name))
                 THEN 1300 ELSE 1240
  IN IF data.t # "dict" THEN Raise("AttributeError", <<>>)    \* data.get
     ELSE IF ~numeric THEN Raise("TypeError", <<>>)
     ELSE Return([name |-> name,
                  nozzle_temp |-> PyInt(nozzle_temp),
                  bed_temp |-> PyInt(bed_temp),
                  fan_speed |-> PyInt(fan_speed),
                  fan_speed_min |-> PyInt(fan_min),
                  fan_speed_max |-> PyInt(fan_max),
                  flow_ratio |-> flow_ratio,
                  density |-> density,
                  cost |-> 25 * Milli,
                  retraction_length |-> retraction_length,
                  retraction_speed |-> PyInt(retraction_speed),
                  default_pressure_advance |-> pressure_advance])

\* response_text is the body the service delivered for the prompt built from
\* name, the hints and fan_pref.
ollama_generate_material(name, nozzle_hint, bed_hint, fan_pref, response_text) ==
  Bind(call_ollama(response_text), LAMBDA answer :
    IF answer.err # "" THEN Raise(answer.err, <<>>)
    ELSE Bind(json_loads(answer.text), LAMBDA data :
           IF data = JSONDecodeError THEN Raise("RuntimeError", answer.text)
           ELSE preset_from(data, name, nozzle_hint, bed_hint)))

(***************************************************************************)
(* Responses the LLM service may deliver                                   *)
(***************************************************************************)
LLMKeys == <<"nozzle_temp", "bed_temp", "fan_speed", "fan_speed_min", "fan_speed_max",
             "flow_ratio", "retraction_length", "retraction_speed", "pressure_advance">>

\* the most keys an enumerated answer object carries
MaxKeys == 2

Far == 1000000 * Milli

\* far below and far above every range, values inside some range (1.0, 50.5,
\* 200.5), the literal NaN, and a value that is not a number
JsonVals == {NumTok(0 - Far), NumTok(1000), NumTok(50500), NumTok(200500),
             NumTok(Far), NumTok(NaN), StrTok(<<Word("hot")>>)}

KeySets == {ks \in SUBSET (1..Len(LLMKeys)) : Cardinality(ks) <= MaxKeys}

\* The JSON text of an object: its members in the order of LLMKeys.
RECURSIVE DumpMembers(_, _, _)
DumpMembers(obj, i, first) ==
  IF i > Len(LLMKeys) THEN <<>>
  ELSE IF i \notin DOMAIN obj THEN DumpMembers(obj, i + 1, first)
  ELSE (IF first THEN <<>> ELSE <<Punct(",")>>)
       \o <<StrTok(Key(LLMKeys[i])), Punct(":"), obj[i]>>
       \o DumpMembers(obj, i + 1, FALSE)

Dump(obj) == <<Punct("{")>> \o DumpMembers(obj, 1, TRUE) \o <<Punct("}")>>

\* Answers that are not a JSON object: nothing, prose, a cut-off object, prose
\* before an object, an array, a number, a string, null.
OtherAnswers ==
  {<<>>,
   <<Word("Sure"), Word("here")>>,
   <<Punct("{"), StrTok(Key("nozzle_temp")), Punct(":")>>,
   <<Word("Sure"), Punct("{"), Punct("}")>>,
   <<Punct("["), NumTok(210 * Milli), Punct("]")>>,
   <<NumTok(210 * Milli)>>,
   <<StrTok(Key("nozzle_temp"))>>,
   <<Word("null")>>}

\* One chunk of the stream: {"message": {"content": fragment}, "done": false}
Envelope(fragment) ==
  <<Punct("{"), StrTok(MESSAGE), Punct(":"),
       Punct("{"), StrTok(CONTENT), Punct(":"), StrTok(fragment), Punct("}"),
    Punct(","), StrTok(Key("done")), Punct(":"), Word("false"), Punct("}")>>

\* The answer delivered bare, as one chunk, or as two chunks
Framings == {"bare", "one chunk", "two chunks"}

Framed(answer, framing) ==
  CASE framing = "bare" -> answer
    [] framing = "one chunk" -> Envelope(answer) \o <<NL>>
    [] framing = "two chunks" ->
         Envelope(SubSeq(answer, 1, Len(answer) \div 2)) \o <<NL>>
           \o Envelope(SubSeq(answer, Len(answer) \div 2 + 1, Len(answer))) \o <<NL>>

Chars(w) ==
  CASE w = "PLA-CF" -> <<"P", "L", "A", "-", "C", "F">>
    [] w = "Nylon" -> <<"N", "y", "l", "o", "n">>
    [] w = "ABS+" -> <<"A", "B", "S", "+">>
    [] w = "Custom" -> <<"C", "u", "s", "t", "o", "m">>
    [] w = "PLA K1C" -> <<"P", "L", "A", " ", "K", "1", "C">>
    [] w = "PETG K1C" -> <<"P", "E", "T", "G", " ", "K", "1", "C">>
    [] w = "pla silk" -> <<"p", "l", "a", " ", "s", "i", "l", "k">>
    [] w = "high" -> HIGH
    [] w = "HIGH" -> <<"H", "I", "G", "H">>
    [] w = "High" -> <<"H", "i", "g", "h">>
    [] w = "low" -> LOW
    [] w = "LOW" -> <<"L", "O", "W">>
    [] w = "medium" -> MEDIUM
    [] w = "Medium" -> <<"M", "e", "d", "i", "u", "m">>
    [] w = "turbo" -> <<"t", "u", "r", "b", "o">>
    [] w = "My PLA" -> <<"M", "y", " ", "P", "L", "A">>
    [] w = " " -> <<" ">>
    [] w = "190-230" -> <<"1", "9", "0", "-", "2", "3", "0">>
    [] w = "50-80" -> <<"5", "0", "-", "8", "0">>
    [] w = "300" -> <<"3", "0", "0">>
    [] w = "abc" -> <<"a", "b", "c">>
    [] w = "" -> <<>>

MaterialNames == {Chars(w) : w \in {"PLA-CF", "Nylon", "ABS+", "Custom"}}

FanPrefs == {Chars(w) : w \in {"high", "HIGH", "High", "low", "LOW", "medium",
                                "Medium", "turbo", ""}}

NozzleHints == {0 - 12 * Milli, 100 * Milli, 160 * Milli, 210 * Milli,
                290 * Milli, 400 * Milli}

BedHints == {0, 30 * Milli, 60 * Milli, 120 * Milli, 200 * Milli}

(***************************************************************************)
(* Specification of ollama_generate_material                               *)
(***************************************************************************)
InitLLM ==
  /\ fn = "ollama_generate_material"
  /\ \E nozzle_hint \in {100 * Milli, 210 * Milli, 400 * Milli},
        bed_hint \in {0, 200 * Milli}, framing \in Framings :
        \/ \E ks \in KeySets : \E obj \in [ks -> JsonVals] :
              arg = [name |-> Chars("PLA-CF"), nozzle_hint |-> nozzle_hint,
                     bed_hint |-> bed_hint, fan_pref |-> MEDIUM,
                     response_text |-> Framed(Dump(obj), framing)]
        \/ \E answer \in OtherAnswers :
              arg = [name |-> Chars("PLA-CF"), nozzle_hint |-> nozzle_hint,
                     bed_hint |-> bed_hint, fan_pref |-> MEDIUM,
                     response_text |-> Framed(answer, framing)]
  /\ pc = "call"
  /\ local = None /\ material = None /\ tuned = None /\ filament = None /\ ret = None

CallLLM ==
  /\ fn = "ollama_generate_material" /\ pc = "call"
  /\ ret' = ollama_generate_material(arg.name, arg.nozzle_hint, arg.bed_hint,
                                     arg.fan_pref, arg.response_text)
  /\ pc' = "return"
  /\ UNCHANGED <<fn, arg, local, material, tuned, filament>>

NextLLM == CallLLM

SpecLLM == InitLLM /\ [][NextLLM]_vars

(***************************************************************************)
(* Specification of ai_generate_material_preset                            *)
(***************************************************************************)
InitHeuristic ==
  /\ fn = "ai_generate_material_preset"
  /\ arg \in [name : MaterialNames, nozzle_hint : NozzleHints,
              bed_hint : BedHints, fan_pref : FanPrefs]
  /\ pc = "call"
  /\ local = None /\ material = None /\ tuned = None /\ filament = None /\ ret = None

CallHeuristic ==
  /\ fn = "ai_generate_material_preset" /\ pc = "call"
  /\ ret' = Return(ai_generate_material_preset(arg.name, arg.nozzle_hint,
                                               arg.bed_hint, arg.fan_pref))
  /\ pc' = "return"
  /\ UNCHANGED <<fn, arg, local, material, tuned, filament>>

NextHeuristic == CallHeuristic

SpecHeuristic == InitHeuristic /\ [][NextHeuristic]_vars

(***************************************************************************)
(* Specification of call_ollama                                            *)
(***************************************************************************)
\* the most chunks an enumerated response carries
MaxChunks == 3

\* Chunks the service may deliver: envelopes carrying a fragment (or an empty
\* one), prose, a blank line, objects without message or without content,
\* JSON that is not an object, and envelopes whose message or content has the
\* wrong type.
ChunkTexts ==
  {Envelope(<<Punct("{")>>),
   Envelope(<<Punct("}")>>),
   Envelope(<<>>),
   <<Word("data"), Punct(":")>>,
   <<>>,
   <<Punct("{"), Punct("}")>>,
   <<Punct("{"), StrTok(MESSAGE), Punct(":"), Punct("{"), Punct("}"), Punct("}")>>,
   <<Punct("{"), StrTok(Key("done")), Punct(":"), Word("true"), Punct("}")>>,
   <<Punct("["), Punct("]")>>,
   <<NumTok(5 * Milli)>>,
   <<StrTok(MESSAGE)>>,
   <<Punct("{"), StrTok(MESSAGE), Punct(":"), NumTok(5 * Milli), Punct("}")>>,
   <<Punct("{"), StrTok(MESSAGE), Punct(":"),
        Punct("{"), StrTok(CONTENT), Punct(":"), NumTok(5 * Milli), Punct("}"),
     Punct("}")>>}

\* The response body: every chunk on a line of its own
RECURSIVE JoinLines(_)
JoinLines(chunks) ==
  IF chunks = <<>> THEN <<>> ELSE Head(chunks) \o <<NL>> \o JoinLines(Tail(chunks))

InitCall ==
  /\ fn = "call_ollama"
  /\ \E n \in 0..MaxChunks : \E chunks \in [1..n -> ChunkTexts] :
        arg = [chunks |-> chunks, response_text |-> JoinLines(chunks)]
  /\ pc = "call"
  /\ local = None /\ material = None /\ tuned = None /\ filament = None /\ ret = None

CallOllama ==
  /\ fn = "call_ollama" /\ pc = "call"
  /\ LET r == call_ollama(arg.response_text)
     IN ret' = IF r.err # "" THEN Raise(r.err, <<>>) ELSE Return(r.text)
  /\ pc' = "return"
  /\ UNCHANGED <<fn, arg, local, material, tuned, filament>>

NextCall == CallOllama

SpecCall == InitCall /\ [][NextCall]_vars

(***************************************************************************)
(* Specification of ai_tune_filament                                       *)
(***************************************************************************)
\* requested temperatures range this far below and above the base's
MaxDelta == 20

BaseNames == {Chars(w) : w \in {"PLA K1C", "PETG K1C", "pla silk", "PLA-CF"}}

BaseNozzles == {160 * Milli, 210 * Milli, 240 * Milli, 290 * Milli}

\* <<fan_speed, fan_speed_min, fan_speed_max>> of the catalog, of the heuristic
\* generator, and others the LLM generator can return
BaseFans == {<<95 * Milli, 80 * Milli, 100 * Milli>>, <<45 * Milli, 30 * Milli, 60 * Milli>>,
             <<90 * Milli, 70 * Milli, 100 * Milli>>, <<40 * Milli, 25 * Milli, 60 * Milli>>,
             <<60 * Milli, 40 * Milli, 80 * Milli>>, <<0, 0, 0>>,
             <<100 * Milli, 100 * Milli, 100 * Milli>>, <<55 * Milli, 33 * Milli, 71 * Milli>>}

BasePresets ==
  {[name |-> nm, nozzle_temp |-> nz, bed_temp |-> 60 * Milli,
    fan_speed |-> f[1], fan_speed_min |-> f[2], fan_speed_max |-> f[3],
    flow_ratio |-> 1000, density |-> 1240, cost |-> 25 * Milli,
    retraction_length |-> 900, retraction_speed |-> 38 * Milli,
    default_pressure_advance |-> 20] :
     nm \in BaseNames, nz \in BaseNozzles, f \in BaseFans}
  \cup {MATERIALS.pla, MATERIALS.petg}

InitTune ==
  /\ fn = "ai_tune_filament"
  /\ \E base \in BasePresets, k \in (0 - MaxDelta)..MaxDelta :
        arg = [material |-> base, suggested_temp |-> base.nozzle_temp + k * Milli]
  /\ pc = "call"
  /\ local = None /\ material = None /\ tuned = None /\ filament = None /\ ret = None

CallTune ==
  /\ fn = "ai_tune_filament" /\ pc = "call"
  /\ ret' = Return(ai_tune_filament(arg.material, arg.suggested_temp))
  /\ pc' = "return"
  /\ UNCHANGED <<fn, arg, local, material, tuned, filament>>

NextTune == CallTune

SpecTune == InitTune /\ [][NextTune]_vars

(***************************************************************************)
(* Profile serializer                                                      *)
(***************************************************************************)
DigitChar(d) ==
  CASE d = 0 -> "0" [] d = 1 -> "1" [] d = 2 -> "2" [] d = 3 -> "3" [] d = 4 -> "4"
    [] d = 5 -> "5" [] d = 6 -> "6" [] d = 7 -> "7" [] d = 8 -> "8" [] d = 9 -> "9"

RECURSIVE NatStr(_)
NatStr(n) == IF n < 10 THEN <<DigitChar(n)>> ELSE NatStr(n \div 10) \o <<DigitChar(n % 10)>>

\* str(x) of an int
StrInt(x) == IF x >= 0 THEN NatStr(x \div Milli) ELSE <<"-">> \o NatStr((0 - x) \div Milli)

\* the decimals of a float: three digits without trailing zeros, at least one
FracStr(f) ==
  IF f % 100 = 0 THEN <<DigitChar(f \div 100)>>
  ELSE IF f % 10 = 0 THEN <<DigitChar(f \div 100), DigitChar((f \div 10) % 10)>>
  ELSE <<DigitChar(f \div 100), DigitChar((f \div 10) % 10), DigitChar(f % 10)>>

\* str(x) of a float
StrFloat(x) ==
  IF x >= 0 THEN NatStr(x \div Milli) \o <<".">> \o FracStr(x % Milli)
  ELSE <<"-">> \o NatStr((0 - x) \div Milli) \o <<".">> \o FracStr((0 - x) % Milli)

\* as_arr(val) is [str(val)]; text is str(val)
as_arr(text) == <<text>>

build_filament_profile(tuned_, pressure_advance, profile_name) ==
  [name |-> profile_name,
   filament_settings_id |-> profile_name,
   inherits |-> "Creality Generic PLA",
   nozzle_temperature |-> as_arr(StrInt(tuned_.nozzle_temp)),
   hot_plate_temp |-> as_arr(StrInt(tuned_.bed_temp)),
   additional_cooling_fan_speed |-> as_arr(StrInt(PyInt(tuned_.fan_speed_max))),
   pressure_advance |-> as_arr(StrFloat(pressure_advance)),
   enable_pressure_advance |-> as_arr(IF Gt(pressure_advance, 0) THEN <<"1">> ELSE <<"0">>),
   version |-> "1.9.0.2"]

(***************************************************************************)
(* main: one run of the program                                            *)
(***************************************************************************)
\* --pressure-advance: absent, or a float (argparse accepts nan)
Given(x) == [given |-> TRUE, v |-> x]

Absent == [given |-> FALSE, v |-> 0]

Overrides == {Absent, Given(0 - 500), Given(0), Given(50), Given(200), Given(700),
              Given(NaN)}

NameInputs == {Chars(w) : w \in {"", " ", "My PLA"}}

MaterialInputs == {Chars(w) : w \in {"", "PLA-CF"}}

TempInputs == {Chars(w) : w \in {"", "190-230", "300", "abc"}}

BedInputs == {Chars(w) : w \in {"", "50-80"}}

FanInputs == {Chars(w) : w \in {"", "HIGH", "low", "turbo"}}

\* Responses of the service during a run: no keys, pressure_advance 0, a
\* pressure_advance far out of range, NaN next to a temperature, and prose.
MainResponses ==
  {Envelope(Dump(<<>>)) \o <<NL>>,
   Envelope(Dump(9 :> NumTok(0))) \o <<NL>>,
   Dump(9 :> NumTok(Far)),
   Envelope(Dump((1 :> NumTok(200500)) @@ (9 :> NumTok(NaN)))) \o <<NL>>,
   Envelope(<<Word("Sure"), Word("here")>>) \o <<NL>>}

InitMain ==
  /\ fn = "main"
  /\ arg \in [pressure_advance : Overrides, ai_new : BOOLEAN, use_ollama : BOOLEAN,
              material : {"pla", "petg"}, name : {<<>>, Chars("My PLA")}]
  /\ pc = "start"
  /\ local = None /\ material = None /\ tuned = None /\ filament = None /\ ret = None

\* lines 302-306
Start ==
  /\ fn = "main" /\ pc = "start"
  /\ \E typed \in NameInputs :
       LET profile_name == IF arg.name # <<>> THEN Strip(arg.name) ELSE Strip(typed)
       IN /\ local' = [pressure_advance |->
                         IF arg.pressure_advance.given
                         THEN Given(clamp(arg.pressure_advance.v, 0, 200))
                         ELSE Absent,
                       profile_name |-> profile_name,
                       tuned_temp |-> 0,
                       pressure_eff |-> 0]
          /\ pc' = IF profile_name = <<>> THEN "name" ELSE "material"
  /\ UNCHANGED <<fn, arg, material, tuned, filament, ret>>

\* lines 307-308
AskName ==
  /\ fn = "main" /\ pc = "name"
  /\ \E typed \in NameInputs :
       /\ local' = [local EXCEPT !.profile_name = Strip(typed)]
       /\ pc' = IF Strip(typed) = <<>> THEN "name" ELSE "material"
  /\ UNCHANGED <<fn, arg, material, tuned, filament, ret>>

\* lines 311-318: what main derives from the four answers typed by the user
Hints(custom, temp_raw, bed_raw, fan_raw) ==
  LET fan_pref == IF Lower(Strip(fan_raw)) = <<>> THEN MEDIUM ELSE Lower(Strip(fan_raw))
  IN [custom_material_name |-> IF Strip(custom) = <<>> THEN Chars("Custom") ELSE Strip(custom),
      temp_hint |-> parse_temp_hint(Strip(temp_raw), 210 * Milli),
      bed_hint |-> IF Strip(bed_raw) # <<>> THEN parse_temp_hint(Strip(bed_raw), 60 * Milli)
                   ELSE 60 * Milli,
      fan_pref |-> IF fan_pref \in {LOW, MEDIUM, HIGH} THEN fan_pref ELSE MEDIUM]

\* lines 310-319, 328-332
GenerateHeuristic ==
  /\ fn = "main" /\ pc = "material" /\ arg.ai_new /\ ~arg.use_ollama
  /\ \E custom \in MaterialInputs, temp_raw \in TempInputs, bed_raw \in BedInputs,
        fan_raw \in FanInputs :
       LET h == Hints(custom, temp_raw, bed_raw, fan_raw)
       IN /\ material' = ai_generate_material_preset(h.custom_material_name, h.temp_hint,
                                                     h.bed_hint, h.fan_pref)
          /\ local' = [local EXCEPT !.tuned_temp = h.temp_hint]
  /\ pc' = "tune"
  /\ UNCHANGED <<fn, arg, tuned, filament, ret>>

\* lines 310-327, 331-332
GenerateLLM ==
  /\ fn = "main" /\ pc = "material" /\ arg.ai_new /\ arg.use_ollama
  /\ \E custom \in MaterialInputs, temp_raw \in TempInputs, bed_raw \in BedInputs,
        fan_raw \in FanInputs, response_text \in MainResponses :
       \E h \in {Hints(custom, temp_raw, bed_raw, fan_raw)} :
       \E r \in {ollama_generate_material(h.custom_material_name, h.temp_hint,
                                          h.bed_hint, h.fan_pref, response_text)} :
          IF r.t = "raise"
          THEN /\ pc' = "raised" /\ ret' = r
               /\ UNCHANGED <<local, material>>
          ELSE /\ pc' = "tune" /\ material' = r.v
               /\ local' = [local EXCEPT !.tuned_temp = h.temp_hint]
               /\ UNCHANGED ret
  /\ UNCHANGED <<fn, arg, tuned, filament>>

\* lines 333-344
SelectCatalog ==
  /\ fn = "main" /\ pc = "material" /\ ~arg.ai_new
  /\ material' = MATERIALS[arg.material]
  /\ \E entered \in TempInputs :
       local' = [local EXCEPT !.tuned_temp =
                    IF Strip(entered) # <<>>
                    THEN parse_temp_hint(Strip(entered), MATERIALS[arg.material].nozzle_temp)
                    ELSE MATERIALS[arg.material].nozzle_temp]
  /\ pc' = "tune"
  /\ UNCHANGED <<fn, arg, tuned, filament, ret>>

\* line 348, with the override tested for truth instead of against None
pressure_eff_truthy(pressure_advance, tuned_) ==
  IF pressure_advance.given /\ pressure_advance.v # 0 THEN pressure_advance.v
  ELSE tuned_.pressure_advance

\* line 348
pressure_eff(pressure_advance, tuned_) ==
  IF pressure_advance.given THEN pressure_advance.v ELSE tuned_.pressure_advance

\* lines 346-348
Tune ==
  /\ fn = "main" /\ pc = "tune"
  /\ LET t == ai_tune_filament(material, PyInt(local.tuned_temp))
     IN /\ tuned' = t
        /\ local' = [local EXCEPT !.pressure_eff = pressure_eff(local.pressure_advance, t)]
  /\ pc' = "build"
  /\ UNCHANGED <<fn, arg, material, filament, ret>>

\* lines 350-357
Write ==
  /\ fn = "main" /\ pc = "build"
  /\ filament' = build_filament_profile(tuned, local.pressure_eff, local.profile_name)
  /\ pc' = "done"
  /\ UNCHANGED <<fn, arg, local, material, tuned, ret>>

Next ==
  \/ Start
  \/ AskName
  \/ GenerateHeuristic
  \/ GenerateLLM
  \/ SelectCatalog
  \/ Tune
  \/ Write

Spec == InitMain /\ [][Next]_vars

(***************************************************************************)
(* Properties                                                              *)
(***************************************************************************)
\* the mathematical clamp of x to [lo, hi]
Between(x, lo, hi) == lo <= x /\ x <= hi

Nearest(x, lo, hi) == IF x < lo THEN lo ELSE IF x > hi THEN hi ELSE x

\* the whole part of a non-negative number
Whole(x) == x - (x % Milli)

Returned(f) == fn = f /\ pc = "return" /\ ret.t = "return"

\* the answer object the LLM generator parsed, for a call that obtained one
AnswerOf(response_text) == json_loads(call_ollama(response_text).text)

\* C1: every preset returned by the LLM generator has nozzle_temp in
\* [160, 290], bed_temp in [30, 120], the three fan values in [0, 100],
\* flow_ratio in [0.9, 1.1], retraction_length in [0.4, 1.8], retraction_speed
\* in [15, 55] and default_pressure_advance in [0.0, 0.2], whatever keys the
\* answer object carries, however far out of range their values are, and
\* whatever the hints are.
C1_LLMPresetWithinBounds ==
  Returned("ollama_generate_material") =>
    /\ Between(ret.v.nozzle_temp, 160 * Milli, 290 * Milli)
    /\ Between(ret.v.bed_temp, 30 * Milli, 120 * Milli)
    /\ Between(ret.v.fan_speed, 0, 100 * Milli)
    /\ Between(ret.v.fan_speed_min, 0, 100 * Milli)
    /\ Between(ret.v.fan_speed_max, 0, 100 * Milli)
    /\ Between(ret.v.flow_ratio, 900, 1100)
    /\ Between(ret.v.retraction_length, 400, 1800)
    /\ Between(ret.v.retraction_speed, 15 * Milli, 55 * Milli)
    /\ Between(ret.v.default_pressure_advance, 0, 200)

\* A preset was returned for an answer without nozzle_temp while the nozzle
\* hint substituted for it is 400, and with a bed_temp a million degrees high.
C1_Witness ==
  /\ Returned("ollama_generate_material")
  /\ arg.nozzle_hint = 400 * Milli
  /\ Key("nozzle_temp") \notin DOMAIN AnswerOf(arg.response_text).d
  /\ Key("bed_temp") \in DOMAIN AnswerOf(arg.response_text).d
  /\ AnswerOf(arg.response_text).d[Key("bed_temp")].n = Far
  /\ ret.v.nozzle_temp = 290 * Milli
  /\ ret.v.bed_temp = 120 * Milli

\* C2: every preset a generator returns has fan_speed_min <= fan_speed_max.
C2_FanMinAtMostFanMax ==
  (Returned("ollama_generate_material") \/ Returned("ai_generate_material_preset")) =>
    ret.v.fan_speed_min <= ret.v.fan_speed_max

\* C3: the LLM generator raises the RuntimeError carrying the raw text exactly
\* when the answer text is not a JSON object, and returns a preset whenever
\* it is one.
C3_GenerationErrorIffNotObject ==
  (fn = "ollama_generate_material" /\ pc = "return"
     /\ call_ollama(arg.response_text).err = "") =>
    IF AnswerOf(arg.response_text).t = "dict"
    THEN ret.t = "return"
    ELSE /\ ret.t = "raise"
         /\ ret.kind = "RuntimeError"
         /\ ret.text = call_ollama(arg.response_text).text

\* C4: tune returns nozzle_temp = the requested temperature brought into
\* [base.nozzle_temp - 10, base.nozzle_temp + 15], and bed_temp =
\* base.bed_temp + 5 exactly when that nozzle_temp > base.nozzle_temp + 5,
\* base.bed_temp otherwise.
C4_TuneTemperatures ==
  Returned("ai_tune_filament") =>
    LET base == arg.material
    IN /\ ret.v.nozzle_temp = Nearest(arg.suggested_temp, base.nozzle_temp - 10 * Milli,
                                      base.nozzle_temp + 15 * Milli)
       /\ ret.v.bed_temp = IF ret.v.nozzle_temp > base.nozzle_temp + 5 * Milli
                           THEN base.bed_temp + 5 * Milli
                           ELSE base.bed_temp

\* tune was asked for more than the window allows above the base, and for a
\* temperature inside the window at most 5 above the base.
C4_Witness ==
  /\ Returned("ai_tune_filament")
  /\ \/ /\ arg.suggested_temp > arg.material.nozzle_temp + 15 * Milli
        /\ ret.v.nozzle_temp = arg.material.nozzle_temp + 15 * Milli
        /\ ret.v.bed_temp = arg.material.bed_temp + 5 * Milli
     \/ /\ arg.suggested_temp = arg.material.nozzle_temp + 5 * Milli
        /\ ret.v.nozzle_temp = arg.suggested_temp
        /\ ret.v.bed_temp = arg.material.bed_temp

\* the A-dash-B and A-dash-B-dash-C forms of a hint, A, B, C digit strings
RangeForms(raw) ==
  {<<a, b>> \in (1..Len(raw)) \X (1..(Len(raw) + 1)) :
     /\ a < b
     /\ raw[a] \in {HYPHEN, ENDASH}
     /\ AllDigits(SubSeq(raw, 1, a - 1))
     /\ AllDigits(SubSeq(raw, a + 1, b - 1))
     /\ \/ b = Len(raw) + 1
        \/ /\ b <= Len(raw)
           /\ raw[b] \in {HYPHEN, ENDASH}
           /\ AllDigits(SubSeq(raw, b + 1, Len(raw)))}

\* C5: for a hint A-B or A-B-C (hyphens or en-dashes, A, B, C non-negative
\* integer numerals) parse_temp_hint returns (A + B) / 2 without its
\* fractional part, whatever the fallback.
C5_RangeMidpoint ==
  Returned("parse_temp_hint") =>
    \A f \in RangeForms(arg.raw) :
       ret.v = ((DigitsVal(SubSeq(arg.raw, 1, f[1] - 1))
                 + DigitsVal(SubSeq(arg.raw, f[1] + 1, f[2] - 1))) \div 2) * Milli

HasDash(raw) == \E i \in 1..Len(raw) : raw[i] \in {HYPHEN, ENDASH}

\* the non-blank parts between the dashes
DashParts(raw) == SelectSeq(ReSplit(raw), LAMBDA p : Strip(p) # <<>>)

\* a range with a part that is not a numeral, or with fewer than two parts
MalformedRange(raw) ==
  /\ HasDash(raw)
  /\ \/ \E i \in 1..Len(DashParts(raw)) : ~AllDigits(Strip(DashParts(raw)[i]))
     \/ Len(DashParts(raw)) < 2

\* C6: parse_temp_hint returns an integer and never raises; it returns the
\* fallback for an empty or blank text, for a dash-free text that is not an
\* integer numeral, and for a malformed range.
C6_FallbackOnFailure ==
  (fn = "parse_temp_hint" /\ pc = "return") =>
    /\ ret.t = "return"
    /\ ret.v % Milli = 0
    /\ (\/ Strip(arg.raw) = <<>>
        \/ ~HasDash(arg.raw) /\ ~IntOk(arg.raw)
        \/ MalformedRange(arg.raw)) => ret.v = arg.fallback

\* C7: the heuristic generator matches the cooling preference without regard
\* to letter case and treats every value other than low/medium/high as
\* medium: (fan_speed, fan_speed_min, fan_speed_max, retraction_length,
\* default_pressure_advance) is (90, 70, 100, 0.8, 0.0) for high,
\* (40, 25, 60, 1.0, 0.02) for low and (60, 40, 80, 0.9, 0.02) otherwise, and
\* every field equals the one returned for "medium".
C7_CoolingPreference ==
  Returned("ai_generate_material_preset") =>
    LET pref == Lower(arg.fan_pref)
        five == <<ret.v.fan_speed, ret.v.fan_speed_min, ret.v.fan_speed_max,
                  ret.v.retraction_length, ret.v.default_pressure_advance>>
    IN IF pref = HIGH THEN five = <<90 * Milli, 70 * Milli, 100 * Milli, 800, 0>>
       ELSE IF pref = LOW THEN five = <<40 * Milli, 25 * Milli, 60 * Milli, 1000, 20>>
       ELSE /\ five = <<60 * Milli, 40 * Milli, 80 * Milli, 900, 20>>
            /\ ret.v = ai_generate_material_preset(arg.name, arg.nozzle_hint,
                                                   arg.bed_hint, MEDIUM)

\* the fan values of the tuning rules, before any conversion to an integer;
\* d is the tuned nozzle_temp minus the base's, a whole number of degrees
FanRule(base, d) ==
  IF Contains(PLA, base.name)
  THEN [fan_speed |-> Nearest(base.fan_speed - 2 * d, 80 * Milli, 100 * Milli),
        fan_speed_min |-> Nearest(base.fan_speed_min - d, 70 * Milli, 100 * Milli),
        fan_speed_max |-> 100 * Milli]
  ELSE [fan_speed |-> Nearest(base.fan_speed - d, 25 * Milli, 65 * Milli),
        fan_speed_min |-> Nearest(base.fan_speed_min - (d \div Milli) * 500,
                                  20 * Milli, 60 * Milli),
        fan_speed_max |-> Nearest(base.fan_speed_max - (d \div Milli) * 500,
                                  40 * Milli, 80 * Milli)]

\* C8 as stated: the fan values returned by tune are exactly those of the
\* rules, also for odd D where 0.5*D is not a whole number.
C8_FanRulesExact ==
  Returned("ai_tune_filament") =>
    LET rule == FanRule(arg.material, ret.v.nozzle_temp - arg.material.nozzle_temp)
    IN /\ ret.v.fan_speed = rule.fan_speed
       /\ ret.v.fan_speed_min = rule.fan_speed_min
       /\ ret.v.fan_speed_max = rule.fan_speed_max

\* C8 as amended: the fan values returned by tune are those of the rules with
\* the fractional part discarded.
C8_FanRulesTruncated ==
  Returned("ai_tune_filament") =>
    LET rule == FanRule(arg.material, ret.v.nozzle_temp - arg.material.nozzle_temp)
    IN /\ ret.v.fan_speed = Whole(rule.fan_speed)
       /\ ret.v.fan_speed_min = Whole(rule.fan_speed_min)
       /\ ret.v.fan_speed_max = Whole(rule.fan_speed_max)

\* tune ran on a base outside the PLA family with an odd D whose half-degree
\* is not swallowed by a limit: the rule gives x.5 and tune returned x.
C8_Witness ==
  /\ Returned("ai_tune_filament")
  /\ ~Contains(PLA, arg.material.name)
  /\ ((ret.v.nozzle_temp - arg.material.nozzle_temp) \div Milli) % 2 = 1
  /\ FanRule(arg.material, ret.v.nozzle_temp - arg.material.nozzle_temp).fan_speed_min
       = ret.v.fan_speed_min + 500
  /\ FanRule(arg.material, ret.v.nozzle_temp - arg.material.nozzle_temp).fan_speed_max
       = ret.v.fan_speed_max + 500

\* C9: in a run that wrote an artifact the effective pressure advance is the
\* override brought into [0.0, 0.2] when one was given (0.0 included) and
\* otherwise the tuned record's pressure_advance, which is the base's
\* default_pressure_advance; enable_pressure_advance is ["1"] exactly when the
\* effective value is greater than 0.
C9_EffectivePressureAdvance ==
  (fn = "main" /\ pc = "done") =>
    /\ tuned.pressure_advance = material.default_pressure_advance
    /\ IF arg.pressure_advance.given
       THEN /\ Between(local.pressure_eff, 0, 200)
            /\ arg.pressure_advance.v # NaN =>
                 local.pressure_eff = Nearest(arg.pressure_advance.v, 0, 200)
       ELSE local.pressure_eff = material.default_pressure_advance
    /\ filament.enable_pressure_advance
         = IF local.pressure_eff > 0 THEN <<(<<"1">>)>> ELSE <<(<<"0">>)>>

\* A run wrote an artifact with the override 0.0 over a base whose default is
\* 0.02, and the artifact disables pressure advance.
C9_Witness ==
  /\ fn = "main" /\ pc = "done"
  /\ arg.pressure_advance = Given(0)
  /\ material.default_pressure_advance = 20
  /\ local.pressure_eff = 0
  /\ filament.enable_pressure_advance = <<(<<"0">>)>>

\* the fragment of a chunk that parses as the envelope, nothing for any other
Fragment(chunk) ==
  LET v == json_loads(chunk)
  IN IF /\ v.t = "dict"
        /\ MESSAGE \in DOMAIN v.d
        /\ v.d[MESSAGE].t = "dict"
        /\ CONTENT \in DOMAIN v.d[MESSAGE].d
        /\ v.d[MESSAGE].d[CONTENT].t = "str"
     THEN v.d[MESSAGE].d[CONTENT].s
     ELSE <<>>

RECURSIVE Fragments(_)
Fragments(chunks) ==
  IF chunks = <<>> THEN <<>> ELSE Fragment(Head(chunks)) \o Fragments(Tail(chunks))

\* C10: call_ollama returns the fragments of the envelope chunks joined in
\* delivery order; every other chunk is skipped without an error, also when
\* no chunk carries a fragment.
C10_ConcatenatedFragments ==
  (fn = "call_ollama" /\ pc = "return") =>
    /\ ret.t = "return"
    /\ ret.v = Fragments(arg.chunks)

====
